---------------------------- MODULE Spec2Model ----------------------------
(***************************************************************************)
(* A model of the InVEST Workbench Flask server                            *)
(* (src/src/natcap/invest/ui_server.py).  One action per route handler.    *)
(* Text (JSON request fields, the pretty-printed args of a generated       *)
(* script) is a sequence of one-character strings, so that parsing and     *)
(* printing are computed character by character.                           *)
(***************************************************************************)
EXTENDS Integers, Sequences, FiniteSets, TLC

VARIABLES
    running,              \* the werkzeug server is serving requests
    fs,                   \* the file system: path -> file
    _MODEL_UIS,           \* natcap.invest.cli._MODEL_UIS
    MODULE_MODELRUN_MAP,  \* ui_server.MODULE_MODELRUN_MAP
    request,              \* the request handled last
    response,             \* what its handler returned, or the error it raised
    calls                 \* the calls out of the server made while handling it

vars == <<running, fs, _MODEL_UIS, MODULE_MODELRUN_MAP, request, response,
          calls>>

(***************************************************************************)
(* Bounds of the model.                                                    *)
(***************************************************************************)
\* How deep the args mappings sent by the client nest below the top level.
MaxDepth == 1

(***************************************************************************)
(* Text.                                                                   *)
(***************************************************************************)
NL == "\n"
Whitespace == {" ", NL}
Digits == <<"0", "1", "2", "3", "4", "5", "6", "7", "8", "9">>
DigitChars == {Digits[i] : i \in 1..10}
DigitValue(c) == (CHOOSE i \in 1..10 : Digits[i] = c) - 1

\* The code points that order the characters of the keys used here.
Ord(c) ==
    CASE c = "a" -> 97
      [] c = "b" -> 98
      [] c = "x" -> 120
      [] c = "{" -> 123
      [] c = "}" -> 125
      [] OTHER -> 0

Range(s) == {s[i] : i \in DOMAIN s}
Min(S) == CHOOSE m \in S : \A o \in S : m <= o

RECURSIVE StrLess(_, _)
\* Python's order on str: by code point, a proper prefix first.
StrLess(s, t) ==
    IF t = <<>> THEN FALSE
    ELSE IF s = <<>> THEN TRUE
    ELSE IF Head(s) = Head(t) THEN StrLess(Tail(s), Tail(t))
    ELSE Ord(Head(s)) < Ord(Head(t))

RECURSIVE SortedKeys(_)
\* sorted(keys)
SortedKeys(K) ==
    IF K = {} THEN <<>>
    ELSE LET k == CHOOSE m \in K : \A o \in K \ {m} : StrLess(m, o)
         IN  <<k>> \o SortedKeys(K \ {k})

RECURSIVE Join(_, _)
\* sep.join(parts)
Join(parts, sep) ==
    IF parts = <<>> THEN <<>>
    ELSE IF Len(parts) = 1 THEN parts[1]
    ELSE parts[1] \o sep \o Join(Tail(parts), sep)

RECURSIVE StrReplace(_, _, _)
\* str.replace(old, new) for a one-character old
StrReplace(s, old, new) ==
    IF s = <<>> THEN <<>>
    ELSE (IF Head(s) = old THEN new ELSE <<Head(s)>>)
         \o StrReplace(Tail(s), old, new)

(***************************************************************************)
(* Python values: what json.loads returns for the args the client sends.   *)
(* t is the type; s the characters of a str; n an int; d a dict as a       *)
(* function from its keys (each a str, a sequence of characters).          *)
(***************************************************************************)
PyStr(s)  == [t |-> "str",  s |-> s,    n |-> 0, d |-> <<>>]
PyInt(n)  == [t |-> "int",  s |-> <<>>, n |-> n, d |-> <<>>]
PyDict(d) == [t |-> "dict", s |-> <<>>, n |-> 0, d |-> d]
DictSet(d, k, v) == [j \in (DOMAIN d) \cup {k} |-> IF j = k THEN v ELSE d[j]]

Fail == [ok |-> FALSE, v |-> PyInt(0), i |-> 0]
Parsed(v, i) == [ok |-> TRUE, v |-> v, i |-> i]

\* The first position from i on that holds no whitespace.
SkipWs(txt, i) ==
    LET S == {j \in i..Len(txt) : txt[j] \notin Whitespace}
    IN  IF S = {} THEN Len(txt) + 1 ELSE Min(S)

\* A string literal opening at i with the quote q: it runs to the next q, and
\* may not hold a line break (no escapes occur in the texts modelled).
ParseString(txt, i, q) ==
    IF i > Len(txt) \/ txt[i] # q THEN Fail
    ELSE LET C == {j \in (i + 1)..Len(txt) : txt[j] = q}
         IN  IF C = {} THEN Fail
             ELSE LET j == Min(C)
                      body == SubSeq(txt, i + 1, j - 1)
                  IN  IF NL \in Range(body) THEN Fail
                      ELSE Parsed(PyStr(body), j + 1)

RECURSIVE ParseInt(_, _, _)
\* The digits from i on, acc the value of those read so far.
ParseInt(txt, i, acc) ==
    IF i <= Len(txt) /\ txt[i] \in DigitChars
    THEN ParseInt(txt, i + 1, 10 * acc + DigitValue(txt[i]))
    ELSE Parsed(PyInt(acc), i)

RECURSIVE ParseValue(_, _, _), ParseItems(_, _, _, _, _)
\* A value at i.  lang is "json" (double quotes, no trailing comma) or
\* "python" (the single-quoted repr, a trailing comma allowed).
ParseValue(txt, i, lang) ==
    LET q == IF lang = "json" THEN "\"" ELSE "'"
    IN  IF i > Len(txt) THEN Fail
        ELSE IF txt[i] = q THEN ParseString(txt, i, q)
        ELSE IF txt[i] \in DigitChars THEN ParseInt(txt, i, 0)
        ELSE IF txt[i] = "{"
             THEN ParseItems(txt, SkipWs(txt, i + 1), <<>>, lang, "open")
        ELSE Fail

\* The rest of a dict display, acc its items so far; at is "open" right after
\* the brace, "item" after a key: value pair, "comma" after a comma.
ParseItems(txt, i, acc, lang, at) ==
    LET q == IF lang = "json" THEN "\"" ELSE "'"
    IN  IF i > Len(txt) THEN Fail
        ELSE IF txt[i] = "}"
             THEN IF at = "comma" /\ lang = "json" THEN Fail
                  ELSE Parsed(PyDict(acc), i + 1)
        ELSE IF at = "item"
             THEN IF txt[i] = ","
                  THEN ParseItems(txt, SkipWs(txt, i + 1), acc, lang, "comma")
                  ELSE Fail
        ELSE LET k == ParseString(txt, i, q)
                 c == SkipWs(txt, k.i)
             IN  IF ~k.ok \/ c > Len(txt) \/ txt[c] # ":" THEN Fail
                 ELSE LET v == ParseValue(txt, SkipWs(txt, c + 1), lang)
                      IN  IF ~v.ok THEN Fail
                          ELSE ParseItems(txt, SkipWs(txt, v.i),
                                          DictSet(acc, k.v.s, v.v), lang, "item")

\* A whole text holding one value and nothing else.
ParseText(txt, lang) ==
    LET r == ParseValue(txt, SkipWs(txt, 1), lang)
    IN  IF r.ok /\ SkipWs(txt, r.i) > Len(txt) THEN r ELSE Fail

RECURSIVE Render(_, _)
\* The one-line text of a value: repr() for "python", json.dumps for "json".
Render(v, lang) ==
    LET q == IF lang = "json" THEN "\"" ELSE "'"
    IN  CASE v.t = "int" -> <<Digits[v.n + 1]>>
          [] v.t = "str" -> <<q>> \o v.s \o <<q>>
          [] v.t = "dict" ->
               LET ks == SortedKeys(DOMAIN v.d)
                   item(j) == <<q>> \o ks[j] \o <<q, ":", " ">>
                              \o Render(v.d[ks[j]], lang)
               IN  <<"{">> \o Join([j \in 1..Len(ks) |-> item(j)], <<",", " ">>)
                   \o <<"}">>


(***************************************************************************)
(* The args mappings clients send.                                         *)
(***************************************************************************)
Leaves == {PyInt(1), PyStr(<<"{">>), PyStr(<<"}">>)}

RECURSIVE Dicts(_)
\* The mappings of at most one key nesting at most n deep.
Dicts(n) ==
    {PyDict(<<>>)} \cup
    {PyDict(<<"a">> :> v) : v \in Leaves \cup (IF n = 0 THEN {} ELSE Dicts(n - 1))}

\* A brace in a key, and two keys sent out of order.
Samples ==
    {PyDict(<<"}">> :> PyInt(1)),
     PyDict((<<"b">> :> PyInt(1)) @@ (<<"a">> :> PyStr(<<"x">>)))}

ArgsValues == Dicts(MaxDepth) \cup Samples

(***************************************************************************)
(* json and pprint, as the handlers use them.                              *)
(***************************************************************************)
\* The encoding of a value as json.dumps writes it.  (The texts of the
\* values clients send are computed once and looked up after that; so are the
\* other conversions below.)
JsonTexts == [v \in ArgsValues |-> Render(v, "json")]
json_text(v) == IF v \in DOMAIN JsonTexts THEN JsonTexts[v] ELSE Render(v, "json")

\* A text that is no JSON.
BadJson == <<"{", "\"", "a", "\"", ":">>
ArgsTexts == {json_text(v) : v \in ArgsValues} \cup {BadJson}

\* json.loads(text): ok is FALSE where it raises JSONDecodeError.
JsonValues == [t \in ArgsTexts |-> ParseText(t, "json")]
json_loads(text) ==
    IF text \in DOMAIN JsonValues THEN JsonValues[text]
    ELSE ParseText(text, "json")

\* json.dumps(obj) of a handler's result: the encoding of obj.
json_dumps(obj) == [json |-> obj]

\* pprint.pformat(args_dict, indent=4): a mapping whose repr fits the line
\* width is its repr, keys sorted; the mappings modelled all fit.
Reprs == [v \in ArgsValues |-> Render(v, "python")]
pformat(v) == IF v \in DOMAIN Reprs THEN Reprs[v] ELSE Render(v, "python")

\* The args text as save_to_python rewrites it: the two replace calls that
\* follow pformat.
TweakFormatting(args) ==
    StrReplace(StrReplace(args, "{", <<"{", NL, " ">>), "}", <<",", NL, "}">>)

\* pformat and the rewriting of its text: the args text save_to_python writes.
ScriptTexts == [v \in ArgsValues |-> TweakFormatting(pformat(v))]
FormatArgs(args_dict) ==
    IF args_dict \in DOMAIN ScriptTexts THEN ScriptTexts[args_dict]
    ELSE TweakFormatting(pformat(args_dict))

\* The Python interpreter reading a dict display: ok is FALSE on a
\* SyntaxError.
PyValues == [t \in {ScriptTexts[v] : v \in ArgsValues} |-> ParseText(t, "python")]
py_eval(text) ==
    IF text \in DOMAIN PyValues THEN PyValues[text]
    ELSE ParseText(text, "python")

(***************************************************************************)
(* The library the server forwards to: natcap.invest.cli, the model        *)
(* modules, natcap.invest.datastack and delineateit.                       *)
(***************************************************************************)
CarbonPy == "natcap.invest.carbon"
DelineateItPy == "natcap.invest.delineateit.delineateit"
InvestVersion == "3.9.0"

\* natcap.invest.cli._MODEL_UIS as the library defines it.
InitModelUIs ==
    ("carbon" :> [pyname |-> CarbonPy, humanname |-> "Carbon"]) @@
    ("delineateit" :> [pyname |-> DelineateItPy, humanname |-> "DelineateIt"])

\* The installed model modules, each with the ARGS_SPEC it declares.
InstalledModules ==
    (CarbonPy :> [ARGS_SPEC |-> [model_name |-> "Carbon",
                                 args |-> {<<"a">>, <<"b">>}]]) @@
    (DelineateItPy :> [ARGS_SPEC |-> [model_name |-> "DelineateIt",
                                      args |-> {<<"a">>}]])

\* importlib.import_module(name): raised where no such module is installed.
import_module(name) ==
    IF name \in DOMAIN InstalledModules
    THEN [raised |-> FALSE, module |-> InstalledModules[name]]
    ELSE [raised |-> TRUE, module |-> [ARGS_SPEC |-> [model_name |-> "",
                                                      args |-> {}]]]

\* model_module.validate(args_dict, limit_to): the declared args that are
\* missing, each with a message; limit_to (a key, or <<>> for None) restricts
\* the check to that key.
validate(module, args_dict, limit_to) ==
    LET checked == IF limit_to = <<>> THEN module.ARGS_SPEC.args
                   ELSE module.ARGS_SPEC.args \cap {limit_to}
        missing == checked \ DOMAIN args_dict.d
        ks == SortedKeys(missing)
    IN  [j \in 1..Len(ks) |-> <<ks[j], "Key is missing from the args dict">>]

\* natcap.invest.cli.build_model_list_json(): every registered model's key
\* and display name.
build_model_list_json(uis) ==
    json_dumps([k \in DOMAIN uis |-> [internal_name |-> k,
                                      human_name |-> uis[k].humanname]])

(***************************************************************************)
(* Files.                                                                  *)
(***************************************************************************)
NoFile == [kind |-> "absent", name |-> "", label |-> "", text |-> <<>>,
           fields |-> <<>>, layer |-> FALSE, geom |-> ""]
Vector(fields, layer, geom) ==
    [NoFile EXCEPT !.kind = "vector", !.fields = fields, !.layer = layer,
                   !.geom = geom]
\* A file that is no vector dataset.
Garbage == [NoFile EXCEPT !.kind = "garbage"]
ParameterSet(model_name, text) ==
    [NoFile EXCEPT !.kind = "paramset", !.name = model_name, !.text = text,
                   !.label = InvestVersion]
Script(py_model, modelname, model_args) ==
    [NoFile EXCEPT !.kind = "script", !.name = py_model, !.label = modelname,
                   !.text = model_args]

\* The paths a client sends: the empty one, and one file's.
Paths == {"", "f"}
\* open(path, 'w') succeeds
Writable(path) == path # ""

\* The file at a path: none at a path that names no file.
FileAt(files, path) == IF path \in DOMAIN files THEN files[path] ELSE NoFile

\* What the file at "f" may be when the server starts.
InitialFiles ==
    {NoFile, Garbage,
     Vector(<<"id", "name">>, TRUE, "point"),
     Vector(<<"id">>, TRUE, "polygon"),
     Vector(<<>>, FALSE, "")}

\* natcap.invest.datastack.build_parameter_set(args, model_name, path,
\* relative): the file system after it, raised on an I/O error.
build_parameter_set(files, args, model_name, paramset_path, relative) ==
    IF Writable(paramset_path)
    THEN [raised |-> FALSE,
          fs |-> [files EXCEPT ![paramset_path] =
                      ParameterSet(model_name, json_text(args))]]
    ELSE [raised |-> TRUE, fs |-> files]

\* natcap.invest.datastack.get_datastack_info(filepath): the stack type and
\* the stack's info, raised where the file is missing or is no datastack.
get_datastack_info(files, filepath) ==
    LET f == FileAt(files, filepath)
        a == json_loads(f.text)
    IN  IF f.kind = "paramset" /\ a.ok
        THEN [raised |-> FALSE, stack_type |-> "json",
              stack_info |-> [args |-> a.v, model_name |-> f.name,
                              invest_version |-> f.label]]
        ELSE [raised |-> TRUE, stack_type |-> "",
              stack_info |-> [args |-> PyDict(<<>>), model_name |-> "",
                              invest_version |-> ""]]

\* delineateit._vector_may_contain_points(vector_path): raised where the
\* path does not open as a vector with a layer.
vector_may_contain_points(files, vector_path) ==
    LET f == FileAt(files, vector_path)
    IN  IF f.kind = "vector" /\ f.layer
        THEN [raised |-> FALSE, exc |-> "", value |-> f.geom = "point"]
        ELSE [raised |-> TRUE, exc |-> "AttributeError", value |-> FALSE]

\* Running a generated script: the module it imports and the value args is
\* bound to; ok is FALSE where the script is no valid Python.
RunScript(f) ==
    LET a == py_eval(f.text)
    IN  [ok |-> f.kind = "script" /\ a.ok, imports |-> f.name,
         executes |-> f.name, args |-> a.v]

(***************************************************************************)
(* What clients send.                                                      *)
(***************************************************************************)
ModelKeys == (DOMAIN InitModelUIs) \cup {"nomodel"}
PyNames == {CarbonPy, "natcap.invest.nomodule"}
LimitTo == {<<>>, <<"a">>}
\* The args sent for validation.
ValidateTexts == {json_text(PyDict(<<>>)), json_text(PyDict(<<"a">> :> PyInt(1))),
                  BadJson}

Request(route) ==
    [route |-> route, path |-> "", name |-> "", label |-> "", args |-> <<>>,
     flag |-> FALSE, limit_to |-> <<>>]
Ok(body) == [status |-> 200, body |-> body]
\* An exception that leaves the handler: Flask answers 500.
Error(exc) == [status |-> 500, body |-> exc]

(***************************************************************************)
(* The server.                                                             *)
(***************************************************************************)
\* MODULE_MODELRUN_MAP: python module name -> (run_name, human_name)
BuildModuleModelrunMap(uis) ==
    [p \in {uis[k].pyname : k \in DOMAIN uis} |->
        LET k == CHOOSE k \in DOMAIN uis : uis[k].pyname = p
        IN  [run_name |-> k, human_name |-> uis[k].humanname]]

Init ==
    /\ running = TRUE
    /\ fs \in [Paths \ {""} -> InitialFiles]
    /\ _MODEL_UIS = InitModelUIs
    /\ MODULE_MODELRUN_MAP = BuildModuleModelrunMap(_MODEL_UIS)
    /\ request = Request("")
    /\ response = Ok("")
    /\ calls = <<>>

\* No handler assigns the registries.
Registries == <<_MODEL_UIS, MODULE_MODELRUN_MAP>>

\* As shutdown_server, but the check for a missing function only skips the
\* call.
shutdown_server_skips(func) ==
    IF ~func
    THEN [raised |-> FALSE, calls |-> <<>>, running |-> TRUE]
    ELSE [raised |-> FALSE, calls |-> <<"werkzeug.server.shutdown">>,
          running |-> FALSE]

\* shutdown_server(): func is whether request.environ holds the werkzeug
\* shutdown function (FALSE: environ.get returns None).
shutdown_server(func) ==
    IF ~func
    THEN [raised |-> TRUE, calls |-> <<>>, running |-> TRUE]
    ELSE [raised |-> FALSE, calls |-> <<"werkzeug.server.shutdown">>,
          running |-> FALSE]

\* A health route that reports the server's state instead.
ReadyBodyByState == IF fs["f"].kind = "absent" THEN "Flask ready" ELSE "Flask busy"

\* The string get_is_ready returns.
ReadyBody == "Flask ready"

\* GET /ready
get_is_ready ==
    /\ running
    /\ request' = Request("/ready")
    /\ response' = Ok(ReadyBody)
    /\ calls' = <<>>
    /\ UNCHANGED <<running, fs, Registries>>

\* GET /shutdown
shutdown ==
    \E func \in BOOLEAN :
        LET r == shutdown_server(func)
        IN  /\ running
            /\ request' = [Request("/shutdown") EXCEPT !.flag = func]
            /\ calls' = r.calls
            /\ running' = r.running
            /\ response' = IF r.raised THEN Error("RuntimeError")
                           ELSE Ok("Flask server shutting down...")
            /\ UNCHANGED <<fs, Registries>>

\* GET /models
get_invest_models ==
    /\ running
    /\ request' = Request("/models")
    /\ response' = Ok(build_model_list_json(_MODEL_UIS))
    /\ calls' = <<"build_model_list_json">>
    /\ UNCHANGED <<running, fs, Registries>>

\* As TargetModule, but with dict.get and a default model.
TargetModuleWithDefault(uis, target_model) ==
    [raised |-> FALSE,
     pyname |-> IF target_model \in DOMAIN uis THEN uis[target_model].pyname
                ELSE CarbonPy]

\* As TargetModule, but the key is looked up among the python module names,
\* so that a registered key resolves to whichever entry comes first.
TargetModuleFirst(uis, target_model) ==
    IF target_model \in DOMAIN uis
    THEN [raised |-> FALSE,
          pyname |-> uis[CHOOSE k \in DOMAIN uis : TRUE].pyname]
    ELSE [raised |-> TRUE, pyname |-> ""]

\* natcap.invest.cli._MODEL_UIS[target_model].pyname: raised on a KeyError.
TargetModule(uis, target_model) ==
    IF target_model \in DOMAIN uis
    THEN [raised |-> FALSE, pyname |-> uis[target_model].pyname]
    ELSE [raised |-> TRUE, pyname |-> ""]

\* model_module.ARGS_SPEC
SpecOf(model_module) == model_module.ARGS_SPEC

\* POST /getspec
get_invest_getspec ==
    \E target_model \in ModelKeys :
        LET target == TargetModule(_MODEL_UIS, target_model)
            imported == import_module(target.pyname)
        IN  /\ running
            /\ request' = [Request("/getspec") EXCEPT !.name = target_model]
            /\ IF target.raised
               THEN /\ response' = Error("KeyError")
                    /\ calls' = <<>>
               ELSE IF imported.raised
               THEN /\ response' = Error("ModuleNotFoundError")
                    /\ calls' = <<"import_module", target.pyname>>
               ELSE /\ response' = Ok(json_dumps(SpecOf(imported.module)))
                    /\ calls' = <<"import_module", target.pyname>>
            /\ UNCHANGED <<running, fs, Registries>>

\* POST /validate
get_invest_validate ==
    \E target_module \in PyNames, args \in ValidateTexts, limit_to \in LimitTo :
        LET args_dict == json_loads(args)
            imported == import_module(target_module)
        IN  /\ running
            /\ request' = [Request("/validate") EXCEPT !.name = target_module,
                               !.args = args, !.limit_to = limit_to]
            /\ IF ~args_dict.ok
               THEN /\ response' = Error("JSONDecodeError")
                    /\ calls' = <<>>
               ELSE IF imported.raised
               THEN /\ response' = Error("ModuleNotFoundError")
                    /\ calls' = <<"import_module", target_module>>
               ELSE /\ response' = Ok(json_dumps(
                            validate(imported.module, args_dict.v, limit_to)))
                    /\ calls' = <<"import_module", target_module, "validate">>
            /\ UNCHANGED <<running, fs, Registries>>

\* A handler that opens whatever path it is given.
ColnamesTriesAlways(vector_path) == TRUE

\* `if vector_path:`
ColnamesTries(vector_path) == vector_path # ""

\* `except AttributeError:` in place of the bare except.
ColnamesCatchesAttributeError(exc) == exc = "AttributeError"

\* `except:` catches every exception.
ColnamesCatches(exc) == TRUE

\* The try block: gdal.OpenEx(vector_path, gdal.OF_VECTOR), then the names of
\* vector.GetLayer().schema.  On a path that is no vector dataset OpenEx
\* raises where gdal's exceptions are on, and otherwise returns None, which
\* has no GetLayer.
ReadColnames(files, vector_path, use_exceptions) ==
    LET f == FileAt(files, vector_path)
    IN  IF f.kind # "vector"
        THEN IF use_exceptions
             THEN [raised |-> TRUE, exc |-> "RuntimeError", colnames |-> <<>>,
                   calls |-> <<"gdal.OpenEx: RuntimeError">>]
             ELSE [raised |-> TRUE, exc |-> "AttributeError", colnames |-> <<>>,
                   calls |-> <<"gdal.OpenEx: None">>]
        ELSE IF ~f.layer
        THEN [raised |-> TRUE, exc |-> "AttributeError", colnames |-> <<>>,
              calls |-> <<"gdal.OpenEx: Dataset", "GetLayer: None">>]
        ELSE [raised |-> FALSE, exc |-> "", colnames |-> f.fields,
              calls |-> <<"gdal.OpenEx: Dataset", "GetLayer: Layer">>]

\* POST /colnames
get_vector_colnames ==
    \E vector_path \in Paths, use_exceptions \in BOOLEAN :
        LET tried == ColnamesTries(vector_path)
            r == ReadColnames(fs, vector_path, use_exceptions)
            caught == tried /\ r.raised /\ ColnamesCatches(r.exc)
            colnames == IF tried /\ ~r.raised THEN r.colnames ELSE <<>>
        IN  /\ running
            /\ request' = [Request("/colnames") EXCEPT !.path = vector_path]
            /\ calls' = IF ~tried THEN <<>>
                        ELSE IF caught THEN r.calls \o <<"LOGGER.error">>
                        ELSE r.calls
            /\ response' = IF tried /\ r.raised /\ ~caught THEN Error(r.exc)
                           ELSE Ok(json_dumps([colnames |-> colnames]))
            /\ UNCHANGED <<running, fs, Registries>>

\* The default of get_vector_colnames, empty, carried over.
HasPointsDefaultFalse == FALSE

\* `has_points = True`
HasPointsDefault == TRUE

\* `if vector_path:`
HasPointsTries(vector_path) == vector_path # ""

\* `except:` catches every exception.
HasPointsCatches(exc) == TRUE

\* POST /vector_has_points
get_vector_has_points ==
    \E vector_path \in Paths :
        LET tried == HasPointsTries(vector_path)
            r == vector_may_contain_points(fs, vector_path)
            caught == tried /\ r.raised /\ HasPointsCatches(r.exc)
            has_points == IF tried /\ ~r.raised THEN r.value
                          ELSE HasPointsDefault
        IN  /\ running
            /\ request' = [Request("/vector_has_points") EXCEPT
                               !.path = vector_path]
            /\ calls' = IF ~tried THEN <<>>
                        ELSE IF r.raised
                        THEN <<"_vector_may_contain_points: raised">>
                             \o (IF caught THEN <<"LOGGER.error">> ELSE <<>>)
                        ELSE <<"_vector_may_contain_points: returned">>
            /\ response' = IF tried /\ r.raised /\ ~caught THEN Error(r.exc)
                           ELSE Ok(json_dumps([has_points |-> has_points]))
            /\ UNCHANGED <<running, fs, Registries>>

\* As LookupModelrun, but with dict.setdefault: a missing name is entered.
LookupModelrunSetdefault(map, model_name) ==
    LET entry == [run_name |-> "", human_name |-> ""]
    IN  IF model_name \in DOMAIN map
        THEN [raised |-> FALSE, entry |-> map[model_name], map |-> map]
        ELSE [raised |-> FALSE, entry |-> entry,
              map |-> [m \in (DOMAIN map) \cup {model_name} |->
                          IF m = model_name THEN entry ELSE map[m]]]

\* MODULE_MODELRUN_MAP[model_name]: the entry, raised on a KeyError, and the
\* map after the lookup, which reads it only.
LookupModelrun(map, model_name) ==
    IF model_name \in DOMAIN map
    THEN [raised |-> FALSE, entry |-> map[model_name], map |-> map]
    ELSE [raised |-> TRUE, entry |-> [run_name |-> "", human_name |-> ""],
          map |-> map]

\* POST /post_datastack_file
post_datastack_file ==
    \E filepath \in Paths :
        LET got == get_datastack_info(fs, filepath)
            stack_info == got.stack_info
            found == LookupModelrun(MODULE_MODELRUN_MAP, stack_info.model_name)
            result_dict == [type |-> got.stack_type,
                            args |-> stack_info.args,
                            module_name |-> stack_info.model_name,
                            model_run_name |-> found.entry.run_name,
                            model_human_name |-> found.entry.human_name,
                            invest_version |-> stack_info.invest_version]
        IN  /\ running
            /\ request' = [Request("/post_datastack_file") EXCEPT
                               !.path = filepath]
            /\ calls' = <<"get_datastack_info">>
            /\ response' = IF got.raised THEN Error("ValueError")
                           ELSE IF found.raised THEN Error("KeyError")
                           ELSE Ok(json_dumps(result_dict))
            /\ MODULE_MODELRUN_MAP' = IF got.raised THEN MODULE_MODELRUN_MAP
                                      ELSE found.map
            /\ UNCHANGED <<running, fs, _MODEL_UIS>>

\* As ParameterSetCall, with the path handed over as the model name too.
ParameterSetCallPathAsName(args, modulename, filepath, relative_paths) ==
    [args |-> args, model_name |-> filepath, path |-> filepath,
     relative |-> relative_paths]

\* The arguments write_parameter_set_file hands to build_parameter_set.
ParameterSetCall(args, modulename, filepath, relative_paths) ==
    [args |-> args, model_name |-> modulename, path |-> filepath,
     relative |-> relative_paths]

\* POST /write_parameter_set_file
write_parameter_set_file ==
    \E filepath \in Paths, modulename \in PyNames, text \in ArgsTexts,
       relative_paths \in BOOLEAN :
        LET args == json_loads(text)
            call == ParameterSetCall(args.v, modulename, filepath,
                                     relative_paths)
            built == build_parameter_set(fs, call.args, call.model_name,
                                         call.path, call.relative)
        IN  /\ running
            /\ request' = [Request("/write_parameter_set_file") EXCEPT
                               !.path = filepath, !.name = modulename,
                               !.args = text, !.flag = relative_paths]
            /\ IF ~args.ok
               THEN /\ response' = Error("JSONDecodeError")
                    /\ calls' = <<>>
                    /\ UNCHANGED fs
               ELSE IF built.raised
               THEN /\ response' = Error("FileNotFoundError")
                    /\ calls' = <<"build_parameter_set">>
                    /\ UNCHANGED fs
               ELSE /\ response' = Ok("parameter set saved")
                    /\ calls' = <<"build_parameter_set">>
                    /\ fs' = built.fs
            /\ UNCHANGED <<running, Registries>>

ModelNames == {"carbon"}

\* POST /save_to_python
save_to_python ==
    \E save_filepath \in Paths, modelname \in ModelNames, pyname \in PyNames,
       text \in ArgsTexts :
        LET args_dict == json_loads(text)
            args == FormatArgs(args_dict.v)
        IN  /\ running
            /\ request' = [Request("/save_to_python") EXCEPT
                               !.path = save_filepath, !.label = modelname,
                               !.name = pyname, !.args = text]
            /\ calls' = <<>>
            /\ IF ~args_dict.ok
               THEN /\ response' = Error("JSONDecodeError")
                    /\ UNCHANGED fs
               ELSE IF ~Writable(save_filepath)
               THEN /\ response' = Error("FileNotFoundError")
                    /\ UNCHANGED fs
               ELSE /\ response' = Ok("python script saved")
                    /\ fs' = [fs EXCEPT ![save_filepath] =
                                Script(pyname, modelname, args)]
            /\ UNCHANGED <<running, Registries>>

Next ==
    \/ get_is_ready
    \/ shutdown
    \/ get_invest_models
    \/ get_invest_getspec
    \/ get_invest_validate
    \/ get_vector_colnames
    \/ get_vector_has_points
    \/ post_datastack_file
    \/ write_parameter_set_file
    \/ save_to_python

Spec == Init /\ [][Next]_vars

(***************************************************************************)
(* Properties.                                                             *)
(***************************************************************************)
Called(name) == \E i \in DOMAIN calls : calls[i] = name
EmptyColnames == json_dumps([colnames |-> <<>>])
HasPoints(b) == json_dumps([has_points |-> b])
\* The file a vector request named opens as a vector with a readable schema.
ReadableVector(f) == f.kind = "vector" /\ f.layer

\* C1: a /colnames request for a non-empty path that does not open as a
\* vector, or whose layer schema cannot be read, is answered normally with
\* {colnames: []}; no error leaves the handler.
C1_ColnamesFailureGivesEmptyList ==
    (/\ request.route = "/colnames"
     /\ request.path # ""
     /\ ~ReadableVector(FileAt(fs, request.path)))
    => /\ response.status = 200
       /\ response.body = EmptyColnames

\* The path names no file, OpenEx raised, and the answer is the empty list.
C1_Witness ==
    /\ request.route = "/colnames"
    /\ request.path = "f"
    /\ fs["f"].kind = "absent"
    /\ calls = <<"gdal.OpenEx: RuntimeError", "LOGGER.error">>
    /\ response = Ok(EmptyColnames)

\* C2: a /colnames request for the empty path is answered {colnames: []}
\* and makes no call at all: the vector is never opened.
C2_EmptyPathOpensNothing ==
    (request.route = "/colnames" /\ request.path = "")
    => /\ response.status = 200
       /\ response.body = EmptyColnames
       /\ calls = <<>>

\* An empty-path request answered while a vector file exists.
C2_Witness ==
    /\ request.route = "/colnames"
    /\ request.path = ""
    /\ response = Ok(EmptyColnames)
    /\ calls = <<>>
    /\ fs["f"].kind = "vector"

\* C3: a /vector_has_points request is always answered normally; with true
\* when the path is empty or the probe fails on it, and with false only when
\* the probe ran to its end and returned false.
C3_HasPointsDefaultsToTrue ==
    request.route = "/vector_has_points"
    => LET probe == vector_may_contain_points(fs, request.path)
       IN  /\ response.status = 200
           /\ (request.path = "" \/ probe.raised)
                  => response.body = HasPoints(TRUE)
           /\ response.body = HasPoints(FALSE)
                  => (request.path # "" /\ ~probe.raised /\ ~probe.value)

\* The probe raised on a file that is no vector, and the answer is true.
C3_Witness ==
    /\ request.route = "/vector_has_points"
    /\ request.path = "f"
    /\ fs["f"].kind = "garbage"
    /\ Called("_vector_may_contain_points: raised")
    /\ response = Ok(HasPoints(TRUE))

\* C4: a /getspec request for a key that is not in the registry ends in the
\* KeyError of the lookup: nothing is returned and no module is imported.
C4_UnregisteredKeyFails ==
    (request.route = "/getspec" /\ request.name \notin DOMAIN _MODEL_UIS)
    => /\ response.status = 500
       /\ response.body = "KeyError"
       /\ calls = <<>>

\* A request for the unregistered key.
C4_Witness ==
    /\ request.route = "/getspec"
    /\ request.name = "nomodel"
    /\ response.status = 500

\* C5: a /getspec request for a registered key imports the module the
\* registry maps the key to, that one only, and returns the JSON encoding of
\* the ARGS_SPEC that module declares.
C5_RegisteredKeyGivesItsSpec ==
    (request.route = "/getspec" /\ request.name \in DOMAIN _MODEL_UIS)
    => LET pyname == _MODEL_UIS[request.name].pyname
       IN  /\ calls = <<"import_module", pyname>>
           /\ response.status = 200
           /\ response.body = json_dumps(InstalledModules[pyname].ARGS_SPEC)

\* The spec of the registry's second model.
C5_Witness ==
    /\ request.route = "/getspec"
    /\ request.name = "delineateit"
    /\ response = Ok(json_dumps([model_name |-> "DelineateIt",
                                 args |-> {<<"a">>}]))

C7_ScriptCallsExecuteWithArgs ==
    (request.route = "/save_to_python" /\ response.status = 200)
    => LET run == RunScript(fs[request.path])
       IN  /\ run.ok
           /\ run.imports = request.name
           /\ run.executes = request.name
           /\ run.args = json_loads(request.args).v

\* C8: whatever the requests before it, a /ready request is answered with
\* 'Flask ready' and leaves the server, the files and the registries as they
\* were.
C8_ReadyIsFixedAndPure ==
    [][request'.route = "/ready"
         => /\ response'.status = 200
            /\ response'.body = "Flask ready"
            /\ UNCHANGED <<running, fs, _MODEL_UIS, MODULE_MODELRUN_MAP>>]_vars

\* A /ready request answered after a script was saved over the file.
C8_Witness ==
    /\ request.route = "/ready"
    /\ response = Ok("Flask ready")
    /\ fs["f"].kind = "script"

\* C9: a /shutdown request without a shutdown function in its environment
\* ends in a RuntimeError, with nothing called and the server still running;
\* with the function, the function is called exactly once, the confirmation
\* is returned and the server stops.
C9_ShutdownNeedsWerkzeug ==
    request.route = "/shutdown"
    => IF request.flag
       THEN /\ response = Ok("Flask server shutting down...")
            /\ calls = <<"werkzeug.server.shutdown">>
            /\ ~running
       ELSE /\ response = Error("RuntimeError")
            /\ calls = <<>>
            /\ running

\* A /shutdown request refused for want of the function.
C9_Witness ==
    /\ request.route = "/shutdown"
    /\ ~request.flag
    /\ response = Error("RuntimeError")
    /\ running

\* C10: the registries hold at every moment what they held at startup.
C10_RegistriesNeverChange ==
    /\ _MODEL_UIS = InitModelUIs
    /\ MODULE_MODELRUN_MAP = BuildModuleModelrunMap(InitModelUIs)

\* A datastack lookup that failed on a module name missing from the map.
C10_Witness ==
    /\ request.route = "/post_datastack_file"
    /\ response.status = 500
    /\ response.body = "KeyError"
    /\ FileAt(fs, request.path).kind = "paramset"
    /\ FileAt(fs, request.path).name \notin DOMAIN MODULE_MODELRUN_MAP
    /\ MODULE_MODELRUN_MAP = BuildModuleModelrunMap(InitModelUIs)

=============================================================================
